---------------------------- MODULE Spec2Model ----------------------------
(***************************************************************************)
(* Model of the Tiger OpenAPI Go SDK's canonicalisation and signing core   *)
(* (src/src/sign.go) and of the client that drives it (src/src/types.go,   *)
(* NewClient, parsePrivateKey, Client.call).                               *)
(*                                                                         *)
(* Go strings are byte strings: a string is modelled as a sequence of      *)
(* bytes (0..255).  A ParameterValue is a pair <<tag, payload>>:           *)
(*   <<"null", 0>>            nil                                          *)
(*   <<"bool", TRUE|FALSE>>   bool                                         *)
(*   <<"int", n>>             an integer type                              *)
(*   <<"float", x>>           a finite float64 of value x/10               *)
(*   <<"nonfinite", name>>    a float64 NaN or infinity                    *)
(*   <<"str", bytes>>         string                                       *)
(*   <<"seq", <<v1, ...>>>>   []interface{} (or a typed slice)             *)
(*   <<"map", f>>             map[string]interface{}, f a function from    *)
(*                            keys (byte strings) to values                *)
(* Encoders produce MARKED bytes <<byte, mark>>; the mark records where    *)
(* the encoder emitted the byte ("q" a quote delimiting a string literal,  *)
(* "s" a byte inside a literal, "o" any byte outside literals, "i" a space *)
(* inserted by marshalWithSpaces).  No modelled code reads a mark; Bytes   *)
(* drops them.                                                             *)
(***************************************************************************)
EXTENDS Integers, Sequences, FiniteSets, TLC

\* ------------------------------------------------------------------ bounds
MaxStrLen == 2      \* longest input string, in characters of Chars
MaxLen == 2         \* most elements of an input sequence or mapping

\* --------------------------------------------------------- byte constants
chQuote == 34       \* '"'
chBackslash == 92   \* '\\'
chColon == 58       \* ':'
chComma == 44       \* ','
chAmp == 38         \* '&'
chEq == 61          \* '='
chSpace == 32       \* ' '

\* ---------------------------------------------------------------- helpers
Mark(bytes, m) == [i \in 1..Len(bytes) |-> <<bytes[i], m>>]
Bytes(marked) == [i \in 1..Len(marked) |-> marked[i][1]]

\* Go's string comparison (<): byte-wise lexicographic, a proper prefix first.
RECURSIVE StrLess(_, _)
StrLess(a, b) ==
    IF a = <<>> THEN b /= <<>>
    ELSE IF b = <<>> THEN FALSE
    ELSE IF a[1] /= b[1] THEN a[1] < b[1]
    ELSE StrLess(Tail(a), Tail(b))

RECURSIVE InsertSorted(_, _)
InsertSorted(k, sorted) ==
    IF sorted = <<>> THEN <<k>>
    ELSE IF StrLess(k, Head(sorted)) THEN <<k>> \o sorted
    ELSE <<Head(sorted)>> \o InsertSorted(k, Tail(sorted))

\* sort.Strings: the keys in ascending order of Go's string comparison.
RECURSIVE SortStrings(_)
SortStrings(keys) ==
    IF keys = <<>> THEN <<>>
    ELSE InsertSorted(Head(keys), SortStrings(Tail(keys)))

\* `for k := range m`: Go fixes no iteration order.  The order of one range
\* statement is the permutation of the key set picked by `seed`.
RECURSIVE PermBySeed(_, _)
PermBySeed(base, seed) ==
    IF base = <<>> THEN <<>>
    ELSE LET n == Len(base)
             p == (seed % n) + 1
             rest == [i \in 1..(n - 1) |-> IF i < p THEN base[i] ELSE base[i + 1]]
         IN <<base[p]>> \o PermBySeed(rest, seed \div n)

RECURSIVE SetToSeq(_)
SetToSeq(S) ==
    IF S = {} THEN <<>>
    ELSE LET x == CHOOSE y \in S : TRUE IN <<x>> \o SetToSeq(S \ {x})

RangeKeys(f, seed) == PermBySeed(SetToSeq(DOMAIN f), seed)

RECURSIVE Fact(_)
Fact(n) == IF n <= 1 THEN 1 ELSE n * Fact(n - 1)

\* Every iteration order of a mapping of at most MaxLen keys has a seed.
Seeds == 0..(Fact(MaxLen) - 1)

HexDigit(n) == IF n < 10 THEN 48 + n ELSE 87 + n
Hex2(n) == <<HexDigit((n \div 16) % 16), HexDigit(n % 16)>>
Hex4(n) == Hex2(n \div 256) \o Hex2(n % 256)

\* strconv.Itoa / the integer encoder of encoding/json.
RECURSIVE Itoa(_)
Itoa(n) ==
    IF n < 0 THEN <<45>> \o Itoa(-n)
    ELSE IF n < 10 THEN <<48 + n>>
    ELSE Itoa(n \div 10) \o <<48 + (n % 10)>>

\* A finite float64 of value x/10 in encoding/json's shortest 'f' format.
FormatFloat(x) ==
    LET a == IF x < 0 THEN -x ELSE x
        sign == IF x < 0 THEN <<45>> ELSE <<>>
    IN IF a % 10 = 0 THEN sign \o Itoa(a \div 10)
       ELSE sign \o Itoa(a \div 10) \o <<46, 48 + (a % 10)>>

\* utf8.DecodeRune at s[i]: the rune, its width, and whether it is valid.
IsCont(s, i) == i <= Len(s) /\ s[i] >= 128 /\ s[i] <= 191
DecodeRune(s, i) ==
    LET b == s[i] IN
    IF b < 128 THEN [r |-> b, width |-> 1, valid |-> TRUE]
    ELSE IF b >= 194 /\ b <= 223 /\ IsCont(s, i + 1)
         THEN [r |-> (b - 192) * 64 + (s[i + 1] - 128), width |-> 2, valid |-> TRUE]
    ELSE IF b >= 224 /\ b <= 239 /\ IsCont(s, i + 1) /\ IsCont(s, i + 2)
         THEN [r |-> (b - 224) * 4096 + (s[i + 1] - 128) * 64 + (s[i + 2] - 128),
               width |-> 3, valid |-> TRUE]
    ELSE [r |-> 65533, width |-> 1, valid |-> FALSE]

\* strings.Builder.WriteRune: the UTF-8 encoding of rune c (c < 2048 here).
WriteRune(c) ==
    IF c < 128 THEN <<c>>
    ELSE <<192 + (c \div 64), 128 + (c % 64)>>

\* strconv.IsPrint, for the runes of the model: the printable ASCII and
\* Latin-1 ranges, and every rune above them other than the line separators.
IsPrint(r) ==
    \/ r >= 32 /\ r <= 126
    \/ r >= 161 /\ r /= 173 /\ r /= 8232 /\ r /= 8233

\* strconv.Quote's escape of one rune (appendEscapedRune, quote '"').
QuoteRune(s, i, d) ==
    IF ~d.valid THEN <<92, 120>> \o Hex2(s[i])
    ELSE IF d.r = chQuote \/ d.r = chBackslash THEN <<92, d.r>>
    ELSE IF IsPrint(d.r) THEN SubSeq(s, i, i + d.width - 1)
    ELSE IF d.r = 7 THEN <<92, 97>>
    ELSE IF d.r = 8 THEN <<92, 98>>
    ELSE IF d.r = 12 THEN <<92, 102>>
    ELSE IF d.r = 10 THEN <<92, 110>>
    ELSE IF d.r = 13 THEN <<92, 114>>
    ELSE IF d.r = 9 THEN <<92, 116>>
    ELSE IF d.r = 11 THEN <<92, 118>>
    ELSE IF d.r < 32 \/ d.r = 127 THEN <<92, 120>> \o Hex2(d.r)
    ELSE <<92, 117>> \o Hex4(d.r)

RECURSIVE QuoteBody(_, _)
QuoteBody(s, i) ==
    IF i > Len(s) THEN <<>>
    ELSE LET d == DecodeRune(s, i)
         IN QuoteRune(s, i, d) \o QuoteBody(s, i + d.width)

\* strconv.Quote(s): a double-quoted Go string literal.
Quote(s) == Mark(<<chQuote>>, "q") \o Mark(QuoteBody(s, 1), "s") \o Mark(<<chQuote>>, "q")

\* encoding/json's escape of one rune of a string (escapeHTML on, as
\* json.Marshal sets it).
JsonRune(s, i, d) ==
    IF ~d.valid THEN <<92, 117, 102, 102, 102, 100>>
    ELSE IF d.r = chQuote \/ d.r = chBackslash THEN <<92, d.r>>
    ELSE IF d.r = 8 THEN <<92, 98>>
    ELSE IF d.r = 12 THEN <<92, 102>>
    ELSE IF d.r = 10 THEN <<92, 110>>
    ELSE IF d.r = 13 THEN <<92, 114>>
    ELSE IF d.r = 9 THEN <<92, 116>>
    ELSE IF d.r < 32 \/ d.r = 60 \/ d.r = 62 \/ d.r = 38
         THEN <<92, 117, 48, 48>> \o Hex2(d.r)
    ELSE IF d.r = 8232 \/ d.r = 8233 THEN <<92, 117>> \o Hex4(d.r)
    ELSE SubSeq(s, i, i + d.width - 1)

RECURSIVE JsonStringBody(_, _)
JsonStringBody(s, i) ==
    IF i > Len(s) THEN <<>>
    ELSE LET d == DecodeRune(s, i)
         IN JsonRune(s, i, d) \o JsonStringBody(s, i + d.width)

JsonString(s) ==
    Mark(<<chQuote>>, "q") \o Mark(JsonStringBody(s, 1), "s") \o Mark(<<chQuote>>, "q")

Ok(out) == [err |-> FALSE, out |-> out]
Err(out) == [err |-> TRUE, out |-> out]

\* json.Marshal(v): compact JSON, mapping keys sorted, or an error for a
\* value encoding/json does not support.
RECURSIVE JsonMarshal(_)
RECURSIVE JsonItems(_, _)
RECURSIVE JsonEntries(_, _, _)
RECURSIVE JsonFields(_, _)
\* The exported fields of a struct, in the order of their declaration.
JsonFields(fields, i) ==
    IF i > Len(fields) THEN Ok(<<>>)
    ELSE LET pre == (IF i > 1 THEN Mark(<<chComma>>, "o") ELSE <<>>)
                    \o JsonString(fields[i][1]) \o Mark(<<chColon>>, "o")
             r == JsonMarshal(fields[i][2])
         IN IF r.err THEN Err(<<>>)
            ELSE LET rest == JsonFields(fields, i + 1)
                 IN [err |-> rest.err, out |-> pre \o r.out \o rest.out]
JsonItems(items, i) ==
    IF i > Len(items) THEN Ok(<<>>)
    ELSE LET pre == IF i > 1 THEN Mark(<<chComma>>, "o") ELSE <<>>
             r == JsonMarshal(items[i])
         IN IF r.err THEN Err(<<>>)
            ELSE LET rest == JsonItems(items, i + 1)
                 IN [err |-> rest.err, out |-> pre \o r.out \o rest.out]
JsonEntries(f, keys, i) ==
    IF i > Len(keys) THEN Ok(<<>>)
    ELSE LET pre == (IF i > 1 THEN Mark(<<chComma>>, "o") ELSE <<>>)
                    \o JsonString(keys[i]) \o Mark(<<chColon>>, "o")
             r == JsonMarshal(f[keys[i]])
         IN IF r.err THEN Err(<<>>)
            ELSE LET rest == JsonEntries(f, keys, i + 1)
                 IN [err |-> rest.err, out |-> pre \o r.out \o rest.out]
JsonMarshal(v) ==
    CASE v[1] = "null" -> Ok(Mark(<<110, 117, 108, 108>>, "o"))
      [] v[1] = "bool" -> Ok(Mark(IF v[2] THEN <<116, 114, 117, 101>>
                                   ELSE <<102, 97, 108, 115, 101>>, "o"))
      [] v[1] = "int" -> Ok(Mark(Itoa(v[2]), "o"))
      [] v[1] = "float" -> Ok(Mark(FormatFloat(v[2]), "o"))
      [] v[1] = "nonfinite" -> Err(<<>>)
      [] v[1] = "str" -> Ok(JsonString(v[2]))
      [] v[1] = "seq" ->
            LET r == JsonItems(v[2], 1)
            IN IF r.err THEN Err(<<>>)
               ELSE Ok(Mark(<<91>>, "o") \o r.out \o Mark(<<93>>, "o"))
      [] v[1] = "map" ->
            LET r == JsonEntries(v[2], SortStrings(SetToSeq(DOMAIN v[2])), 1)
            IN IF r.err THEN Err(<<>>)
               ELSE Ok(Mark(<<123>>, "o") \o r.out \o Mark(<<125>>, "o"))
      [] v[1] = "struct" ->
            LET r == JsonFields(v[2], 1)
            IN IF r.err THEN Err(<<>>)
               ELSE Ok(Mark(<<123>>, "o") \o r.out \o Mark(<<125>>, "o"))
      [] v[1] = "chan" -> Err(<<>>)
      [] v[1] = "raw" ->
            IF v[2].valid
              THEN Ok(Mark(SelectSeq(v[2].text, LAMBDA b : ~(b \in {9, 10, 13, 32})), "o"))
              ELSE Err(<<>>)


\* ------------------------------------------------------- src/src/sign.go
\* scanByte without the escape flag: a backslash is an ordinary byte.
scanByteNoEscape(st, e) ==
    LET c == e[1]
        wr == Mark(WriteRune(c), e[2])
    IN IF c = chQuote
         THEN [st EXCEPT !.out = @ \o wr, !.inString = ~@]
       ELSE IF st.inString
         THEN [st EXCEPT !.out = @ \o wr]
       ELSE IF c = chColon
         THEN [st EXCEPT !.out = @ \o <<<<chColon, e[2]>>, <<chSpace, "i">>>>]
       ELSE IF c = chComma
         THEN [st EXCEPT !.out = @ \o <<<<chComma, e[2]>>, <<chSpace, "i">>>>]
       ELSE [st EXCEPT !.out = @ \o wr]

\* One iteration of marshalWithSpaces' loop over the bytes of raw (lines
\* 55-85) on the scanner state st = [out, inString, escape]; e is the next
\* byte with its mark.  c := rune(ch) and out.WriteRune(c) write the UTF-8
\* encoding of the rune whose code is the BYTE.
scanByte(st, e) ==
    LET c == e[1]
        wr == Mark(WriteRune(c), e[2])
    IN IF st.escape
         THEN [st EXCEPT !.out = @ \o wr, !.escape = FALSE]
       ELSE IF c = chBackslash
         THEN [st EXCEPT !.out = @ \o wr, !.escape = TRUE]
       ELSE IF c = chQuote
         THEN [st EXCEPT !.out = @ \o wr, !.inString = ~@]
       ELSE IF st.inString
         THEN [st EXCEPT !.out = @ \o wr]
       ELSE IF c = chColon
         THEN [st EXCEPT !.out = @ \o <<<<chColon, e[2]>>, <<chSpace, "i">>>>]
       ELSE IF c = chComma
         THEN [st EXCEPT !.out = @ \o <<<<chComma, e[2]>>, <<chSpace, "i">>>>]
       ELSE [st EXCEPT !.out = @ \o wr]

\* The scanner's state before the loop (lines 52-54).
scanInit == [out |-> <<>>, inString |-> FALSE, escape |-> FALSE]

\* The loop over raw[lo..hi] from state st.  (Split in halves, and the
\* state after the first half computed before the second half is entered,
\* so that the evaluation stays shallow on a long input.)
RECURSIVE scanRange(_, _, _, _)
scanRange(st, raw, lo, hi) ==
    IF lo > hi THEN st
    ELSE IF lo = hi THEN scanByte(st, raw[lo])
    ELSE LET mid == (lo + hi) \div 2
             half == scanRange(st, raw, lo, mid)
         IN IF half.escape \in BOOLEAN THEN scanRange(half, raw, mid + 1, hi) ELSE half

\* marshalWithSpaces(v): json.Marshal, then a space after each ':' and ','
\* the scanner takes to lie outside a string literal.
marshalWithSpaces(v) ==
    LET raw == JsonMarshal(v)
    IN IF raw.err THEN Err(<<>>)
       ELSE Ok(scanRange(scanInit, raw.out, 1, Len(raw.out)).out)

\* The keys writeDeterministic emits for a mapping: collected in iteration
\* order, then sorted (lines 110-114).
detKeysUnsorted(f, seed) == RangeKeys(f, seed)
detKeys(f, seed) == SortStrings(RangeKeys(f, seed))

\* The separator writeDeterministic writes between two elements and the one
\* it writes after a key (lines 118, 121, 131).
detCommaSpaced == <<chComma, chSpace>>
detComma == <<chComma>>
detColon == <<chColon>>

\* writeDeterministic(b, v): what the call appends to b, and whether it
\* returns an error (what it wrote before the error stays in b).
RECURSIVE writeDeterministic(_, _)
RECURSIVE writeItems(_, _, _)
RECURSIVE writeEntries(_, _, _, _)
writeItems(items, i, seed) ==
    IF i > Len(items) THEN Ok(<<>>)
    ELSE LET pre == IF i > 1 THEN Mark(detComma, "o") ELSE <<>>
             r == writeDeterministic(items[i], seed)
         IN IF r.err THEN Err(pre \o r.out)
            ELSE LET rest == writeItems(items, i + 1, seed)
                 IN [err |-> rest.err, out |-> pre \o r.out \o rest.out]
writeEntries(f, keys, i, seed) ==
    IF i > Len(keys) THEN Ok(<<>>)
    ELSE LET pre == (IF i > 1 THEN Mark(detComma, "o") ELSE <<>>)
                    \o Quote(keys[i]) \o Mark(detColon, "o")
             r == writeDeterministic(f[keys[i]], seed)
         IN IF r.err THEN Err(pre \o r.out)
            ELSE LET rest == writeEntries(f, keys, i + 1, seed)
                 IN [err |-> rest.err, out |-> pre \o r.out \o rest.out]
writeDeterministic(v, seed) ==
    CASE v[1] = "map" ->
            LET r == writeEntries(v[2], detKeys(v[2], seed), 1, seed)
            IN IF r.err THEN Err(Mark(<<123>>, "o") \o r.out)
               ELSE Ok(Mark(<<123>>, "o") \o r.out \o Mark(<<125>>, "o"))
      [] v[1] = "seq" ->
            LET r == writeItems(v[2], 1, seed)
            IN IF r.err THEN Err(Mark(<<91>>, "o") \o r.out)
               ELSE Ok(Mark(<<91>>, "o") \o r.out \o Mark(<<93>>, "o"))
      [] v[1] = "raw" -> Ok(Mark(v[2].text, "o"))
      [] v[1] = "str" -> Ok(Quote(v[2]))
      [] v[1] = "null" -> Ok(Mark(<<110, 117, 108, 108>>, "o"))
      [] OTHER -> JsonMarshal(v)

\* marshalDeterministic(v): the builder's content, or "" with the error.
marshalDeterministic(v, seed) ==
    LET r == writeDeterministic(v, seed)
    IN IF r.err THEN Err(<<>>) ELSE Ok(r.out)

\* The field names buildSignContent walks: collected in iteration order,
\* then sorted (lines 18-22).
signKeysUnsorted(f, seed) == RangeKeys(f, seed)
signKeys(f, seed) == SortStrings(RangeKeys(f, seed))

\* The text buildSignContent writes for one field's value (lines 31-41).
signValueAlwaysEncoded(val) ==
    LET r == marshalWithSpaces(val) IN [err |-> r.err, out |-> Bytes(r.out)]
signValue(val) ==
    IF val[1] = "str" THEN Ok(val[2])
    ELSE LET r == marshalWithSpaces(val) IN [err |-> r.err, out |-> Bytes(r.out)]

RECURSIVE signFields(_, _, _)
signFields(f, keys, i) ==
    IF i > Len(keys) THEN Ok(<<>>)
    ELSE LET pre == (IF i > 1 THEN <<chAmp>> ELSE <<>>) \o keys[i] \o <<chEq>>
             r == signValue(f[keys[i]])
         IN IF r.err THEN Err(<<>>)
            ELSE LET rest == signFields(f, keys, i + 1)
                 IN [err |-> rest.err,
                     out |-> IF rest.err THEN <<>> ELSE pre \o r.out \o rest.out]

\* buildSignContent(params): params is a mapping f; plain bytes.
buildSignContent(f, seed) == signFields(f, signKeys(f, seed), 1)


\* ------------------------------------------- the reference JSON decoder
\* What a JSON decoder (RFC 8259; json.Unmarshal on the server's side) makes
\* of a byte string.  It models no code of this repository: the claims about
\* decoding what the encoders emit are stated with it.  A decoded number is
\* <<"num", x>>, of value x/10.
HexVal(b) ==
    IF b >= 48 /\ b <= 57 THEN b - 48
    ELSE IF b >= 97 /\ b <= 102 THEN b - 87
    ELSE IF b >= 65 /\ b <= 70 THEN b - 55
    ELSE -1

Utf8Encode(r) ==
    IF r < 128 THEN <<r>>
    ELSE IF r < 2048 THEN <<192 + (r \div 64), 128 + (r % 64)>>
    ELSE <<224 + (r \div 4096), 128 + ((r \div 64) % 64), 128 + (r % 64)>>

ParseFail == [ok |-> FALSE, v |-> <<"null", 0>>, next |-> 0]
Parsed(v, next) == [ok |-> TRUE, v |-> v, next |-> next]

IsWs(b) == b = 32 \/ b = 9 \/ b = 10 \/ b = 13
IsDigit(b) == b >= 48 /\ b <= 57

RECURSIVE SkipWs(_, _)
SkipWs(s, i) == IF i <= Len(s) /\ IsWs(s[i]) THEN SkipWs(s, i + 1) ELSE i

HasAt(s, i, lit) == i + Len(lit) - 1 <= Len(s) /\ SubSeq(s, i, i + Len(lit) - 1) = lit

\* The body of a string literal from s[i] on, acc the bytes decoded so far.
RECURSIVE ParseStrFrom(_, _, _)
ParseStrFrom(s, i, acc) ==
    IF i > Len(s) THEN ParseFail
    ELSE IF s[i] = 34 THEN Parsed(<<"str", acc>>, i + 1)
    ELSE IF s[i] < 32 THEN ParseFail
    ELSE IF s[i] /= 92 THEN ParseStrFrom(s, i + 1, acc \o <<s[i]>>)
    ELSE IF i + 1 > Len(s) THEN ParseFail
    ELSE LET e == s[i + 1] IN
         IF e = 34 \/ e = 92 \/ e = 47 THEN ParseStrFrom(s, i + 2, acc \o <<e>>)
         ELSE IF e = 98 THEN ParseStrFrom(s, i + 2, acc \o <<8>>)
         ELSE IF e = 102 THEN ParseStrFrom(s, i + 2, acc \o <<12>>)
         ELSE IF e = 110 THEN ParseStrFrom(s, i + 2, acc \o <<10>>)
         ELSE IF e = 114 THEN ParseStrFrom(s, i + 2, acc \o <<13>>)
         ELSE IF e = 116 THEN ParseStrFrom(s, i + 2, acc \o <<9>>)
         ELSE IF e = 117 /\ i + 5 <= Len(s)
                 /\ \A j \in 2..5 : HexVal(s[i + j]) >= 0
              THEN ParseStrFrom(s, i + 6,
                      acc \o Utf8Encode(HexVal(s[i + 2]) * 4096 + HexVal(s[i + 3]) * 256
                                        + HexVal(s[i + 4]) * 16 + HexVal(s[i + 5])))
         ELSE ParseFail

RECURSIVE ParseDigits(_, _, _)
ParseDigits(s, i, acc) ==
    IF i <= Len(s) /\ IsDigit(s[i]) THEN ParseDigits(s, i + 1, acc * 10 + (s[i] - 48))
    ELSE [n |-> acc, next |-> i]

\* -?digits, with at most one fractional digit (all the model's numbers have).
ParseNumber(s, i) ==
    LET neg == s[i] = 45
        j == IF neg THEN i + 1 ELSE i
    IN IF j > Len(s) \/ ~IsDigit(s[j]) THEN ParseFail
       ELSE LET d == ParseDigits(s, j, 0)
                frac == d.next + 1 <= Len(s) /\ s[d.next] = 46 /\ IsDigit(s[d.next + 1])
                x == IF frac THEN d.n * 10 + (s[d.next + 1] - 48) ELSE d.n * 10
                nx == IF frac THEN d.next + 2 ELSE d.next
            IN IF nx <= Len(s) /\ (IsDigit(s[nx]) \/ s[nx] = 46 \/ s[nx] = 101 \/ s[nx] = 69)
                 THEN ParseFail
               ELSE Parsed(<<"num", IF neg THEN -x ELSE x>>, nx)

RECURSIVE ParseValue(_, _)
RECURSIVE ParseItems(_, _, _)
RECURSIVE ParseMembers(_, _, _)
\* After '[' or ',': a value, then ',' or ']'.
ParseItems(s, i, acc) ==
    LET r == ParseValue(s, i) IN
    IF ~r.ok THEN ParseFail
    ELSE LET j == SkipWs(s, r.next) IN
         IF j > Len(s) THEN ParseFail
         ELSE IF s[j] = 44 THEN ParseItems(s, j + 1, Append(acc, r.v))
         ELSE IF s[j] = 93 THEN Parsed(<<"seq", Append(acc, r.v)>>, j + 1)
         ELSE ParseFail
\* After '{' or ',': "key" : value, then ',' or '}'.  A repeated key keeps
\* its last value.
ParseMembers(s, i, f) ==
    LET a == SkipWs(s, i) IN
    IF a > Len(s) \/ s[a] /= 34 THEN ParseFail
    ELSE LET k == ParseStrFrom(s, a + 1, <<>>) IN
         IF ~k.ok THEN ParseFail
         ELSE LET c == SkipWs(s, k.next) IN
              IF c > Len(s) \/ s[c] /= 58 THEN ParseFail
              ELSE LET r == ParseValue(s, c + 1) IN
                   IF ~r.ok THEN ParseFail
                   ELSE LET g == [x \in (DOMAIN f) \cup {k.v[2]} |->
                                     IF x = k.v[2] THEN r.v ELSE f[x]]
                            j == SkipWs(s, r.next)
                        IN IF j > Len(s) THEN ParseFail
                           ELSE IF s[j] = 44 THEN ParseMembers(s, j + 1, g)
                           ELSE IF s[j] = 125 THEN Parsed(<<"map", g>>, j + 1)
                           ELSE ParseFail
ParseValue(s, i0) ==
    LET i == SkipWs(s, i0) IN
    IF i > Len(s) THEN ParseFail
    ELSE IF s[i] = 123 THEN
            (LET j == SkipWs(s, i + 1) IN
             IF j <= Len(s) /\ s[j] = 125 THEN Parsed(<<"map", <<>>>>, j + 1)
             ELSE ParseMembers(s, i + 1, <<>>))
    ELSE IF s[i] = 91 THEN
            (LET j == SkipWs(s, i + 1) IN
             IF j <= Len(s) /\ s[j] = 93 THEN Parsed(<<"seq", <<>>>>, j + 1)
             ELSE ParseItems(s, i + 1, <<>>))
    ELSE IF s[i] = 34 THEN ParseStrFrom(s, i + 1, <<>>)
    ELSE IF HasAt(s, i, <<116, 114, 117, 101>>) THEN Parsed(<<"bool", TRUE>>, i + 4)
    ELSE IF HasAt(s, i, <<102, 97, 108, 115, 101>>) THEN Parsed(<<"bool", FALSE>>, i + 5)
    ELSE IF HasAt(s, i, <<110, 117, 108, 108>>) THEN Parsed(<<"null", 0>>, i + 4)
    ELSE IF s[i] = 45 \/ IsDigit(s[i]) THEN ParseNumber(s, i)
    ELSE ParseFail

\* The whole of s as one JSON value: [ok, v].
JsonDecode(s) ==
    LET r == ParseValue(s, 1)
    IN IF r.ok /\ SkipWs(s, r.next) > Len(s) THEN [ok |-> TRUE, v |-> r.v]
       ELSE [ok |-> FALSE, v |-> <<"null", 0>>]

\* A ParameterValue as a decoder returns it: every number a <<"num", x>>.
RECURSIVE Norm(_)
Norm(v) ==
    CASE v[1] = "int" -> <<"num", v[2] * 10>>
      [] v[1] = "float" -> <<"num", v[2]>>
      [] v[1] = "seq" -> <<"seq", [i \in DOMAIN v[2] |-> Norm(v[2][i])]>>
      [] v[1] = "map" -> <<"map", [k \in DOMAIN v[2] |-> Norm(v[2][k])]>>
      [] OTHER -> v

\* Whether v holds a non-finite float at any depth.
RECURSIVE HasNonFinite(_)
HasNonFinite(v) ==
    CASE v[1] = "nonfinite" -> TRUE
      [] v[1] = "seq" -> \E i \in DOMAIN v[2] : HasNonFinite(v[2][i])
      [] v[1] = "map" -> \E k \in DOMAIN v[2] : HasNonFinite(v[2][k])
      [] OTHER -> FALSE

\* ------------------------------------------------------------- the inputs
\* The characters input strings are built from: a letter, the quote, the
\* backslash, the two separators, a space, a control character and a
\* two-byte UTF-8 character (U+00E9).
Chars == {<<97>>, <<chQuote>>, <<chBackslash>>, <<chColon>>, <<chComma>>,
          <<chSpace>>, <<1>>, <<195, 169>>}

RECURSIVE StrsOfLen(_)
StrsOfLen(n) ==
    IF n = 0 THEN {<<>>}
    ELSE {s \o c : s \in StrsOfLen(n - 1), c \in Chars}

Strs == UNION {StrsOfLen(n) : n \in 0..MaxStrLen}

Scalars ==
    {<<"null", 0>>, <<"bool", TRUE>>, <<"bool", FALSE>>,
     <<"int", 0>>, <<"int", 7>>, <<"int", -3>>, <<"int", 12>>,
     <<"float", 15>>, <<"float", -5>>, <<"float", 20>>,
     <<"nonfinite", "NaN">>, <<"nonfinite", "+Inf">>}
    \cup {<<"str", s>> : s \in Strs}

\* Field names: "a", "b", "z", "a:" and U+00E9.
Keys == {<<97>>, <<98>>, <<122>>, <<97, chColon>>, <<195, 169>>}

\* The elements of input containers.
Leafs ==
    {<<"int", 1>>, <<"int", 2>>, <<"str", <<97>>>>,
     <<"str", <<chQuote, chComma>>>>, <<"str", <<chBackslash, chColon>>>>,
     <<"str", <<195, 169>>>>, <<"nonfinite", "NaN">>}

SeqsOver(S) == UNION {[1..n -> S] : n \in 0..MaxLen}
MapsOver(S) ==
    UNION {[D -> S] : D \in {K \in SUBSET Keys : Cardinality(K) <= MaxLen}}

Flat == {<<"seq", q>> : q \in SeqsOver(Leafs)} \cup {<<"map", f>> : f \in MapsOver(Leafs)}

\* One level of nesting: a container inside a sequence, and inside a
\* mapping beside a scalar whose key sorts before the container's.
Nested ==
    {<<"seq", <<v>>>> : v \in Flat}
    \cup {<<"map", [k \in {<<97>>, <<122>>} |-> IF k = <<122>> THEN v ELSE <<"int", 1>>]>> :
            v \in Flat}

\* The spec's own example: {"method": "assets", "ts": 1}.
kMethod == <<109, 101, 116, 104, 111, 100>>
kTs == <<116, 115>>
sAssets == <<97, 115, 115, 101, 116, 115>>
Examples ==
    {<<"map", [k \in {kMethod, kTs} |-> IF k = kMethod THEN <<"str", sAssets>> ELSE <<"int", 1>>]>>}

Values == Scalars \cup Flat \cup Nested \cup Examples

\* ------------------------------------------------------------------ state
VARIABLES
    val,      \* the value handed to the function under test
    op,       \* the function applied to val, "none" before the call
    res,      \* its result [done, err, out]
    res2,     \* the result of calling it again on the same value
    raw,      \* marshalWithSpaces, stepped: json.Marshal's output (marked)
    pos,      \* ... the number of bytes of raw the loop has consumed
    scan,     \* ... the scanner's [out, inString, escape]
    scanned,  \* ... TRUE once marshalWithSpaces has returned
    client,   \* the *Client NewClient returned, NoClient while there is none
    newRes,   \* the last NewClient call: [called, key, err]
    calls,    \* per caller, the locals of its Client.call
    net       \* the HTTP requests handed to httpClient.Do: [from, body]

encVars == <<val, op, res, res2>>
scanVars == <<raw, pos, scan, scanned>>
clientVars == <<client, newRes, calls, net>>
vars == <<val, op, res, res2, raw, pos, scan, scanned, client, newRes, calls, net>>

NoRes == [done |-> FALSE, err |-> FALSE, out |-> <<>>]
Result(r) == [done |-> TRUE, err |-> r.err, out |-> r.out]

EncIdle == val = <<"null", 0>> /\ op = "none" /\ res = NoRes /\ res2 = NoRes
ScanIdle == raw = <<>> /\ pos = 0 /\ scan = scanInit /\ scanned = FALSE

\* ------------------------------------------------- src/src/types.go
kVersion == <<118, 101, 114, 115, 105, 111, 110>>    \* "version"
kBizContent == <<98, 105, 122, 95, 99, 111, 110, 116, 101, 110, 116>>    \* "biz_content"
kTimestamp == <<116, 105, 109, 101, 115, 116, 97, 109, 112>>    \* "timestamp"
kTigerId == <<116, 105, 103, 101, 114, 95, 105, 100>>    \* "tiger_id"
kCharset == <<99, 104, 97, 114, 115, 101, 116>>    \* "charset"
kSignType == <<115, 105, 103, 110, 95, 116, 121, 112, 101>>    \* "sign_type"
kDeviceId == <<100, 101, 118, 105, 99, 101, 95, 105, 100>>    \* "device_id"
kNotifyUrl == <<110, 111, 116, 105, 102, 121, 95, 117, 114, 108>>    \* "notify_url"
kSign == <<115, 105, 103, 110>>    \* "sign"
kAccount == <<97, 99, 99, 111, 117, 110, 116>>    \* "account"
kSegment == <<115, 101, 103, 109, 101, 110, 116>>    \* "segment"
kUserMark == <<117, 115, 101, 114, 95, 109, 97, 114, 107>>    \* "user_mark"
kLimitPrice == <<108, 105, 109, 105, 116, 95, 112, 114, 105, 99, 101>>    \* "limit_price"
sPlaceOrder == <<112, 108, 97, 99, 101, 95, 111, 114, 100, 101, 114>>    \* "place_order"
defaultCharset == <<85, 84, 70, 45, 56>>    \* "UTF-8"
defaultSignType == <<82, 83, 65>>    \* "RSA"
defaultVersion == <<50, 46, 48>>    \* "2.0"
defaultLang == <<101, 110, 95, 85, 83>>    \* "en_US"
sTigerId == <<50, 48, 49, 53>>    \* "2015"
sDevice == <<100, 101, 118, 32, 49>>    \* "dev 1"
sNotify == <<104, 116, 116, 112, 58, 47, 47, 99, 98, 44, 120>>    \* "http://cb,x"
sAcct == <<49, 50, 51>>    \* "123"
sMark == <<99, 97, 102, 195, 169>>    \* "café"
timePrefix == <<50, 48, 48, 54, 45, 48, 49, 45, 48, 50, 32, 49, 53, 58, 48, 52, 58>>    \* "2006-01-02 15:04:"

\* Private key material, as Config.PrivateKey may hold it.  form: how the
\* string is framed ("pem" a PEM block, "bare" base64 without PEM markers,
\* "garbage" neither, "blank" only white space, "empty" the empty string);
\* blockType: the PEM block's type; der: what the decoded bytes are.
KeyDers == {"pkcs1", "pkcs1-small", "pkcs8-rsa", "pkcs8-ec", "junk"}
KeyInputs ==
    {[form |-> f, blockType |-> "", der |-> ""] : f \in {"empty", "blank", "garbage"}}
    \cup {[form |-> "pem", blockType |-> t, der |-> d] :
            t \in {"RSA PRIVATE KEY", "PRIVATE KEY"}, d \in KeyDers}
    \cup {[form |-> "bare", blockType |-> "", der |-> d] : d \in KeyDers}

NilBlock == [nil |-> TRUE, Type |-> "", der |-> ""]
NilKey == [nil |-> TRUE, canSign |-> FALSE]

\* pem.Decode([]byte(key)): the first PEM block of key, nil when it has none.
pemDecode(key) ==
    IF key.form = "pem" THEN [nil |-> FALSE, Type |-> key.blockType, der |-> key.der]
    ELSE NilBlock

\* pemBlockFromBase64 (lines 895-911): the trimmed key wrapped in RSA PRIVATE
\* KEY markers, 64 characters a line, and PEM-decoded.
pemBlockFromBase64(key) ==
    IF key.form \in {"empty", "blank"} THEN NilBlock
    ELSE IF key.form = "bare"
         THEN [nil |-> FALSE, Type |-> "RSA PRIVATE KEY", der |-> key.der]
    ELSE NilBlock

\* x509.ParsePKCS8PrivateKey, then the *rsa.PrivateKey assertion (883-890).
parsePKCS8(der) ==
    IF der = "pkcs8-rsa" THEN [key |-> [nil |-> FALSE, canSign |-> TRUE], err |-> ""]
    ELSE IF der = "pkcs8-ec" THEN [key |-> NilKey, err |-> "private key is not RSA"]
    ELSE [key |-> NilKey, err |-> "x509: failed to parse"]

\* x509.ParsePKCS1PrivateKey (line 892).  A key of a few hundred bits parses
\* (before Go 1.24) but is too short to sign a SHA-1 digest.
parsePKCS1(der) ==
    IF der = "pkcs1" THEN [key |-> [nil |-> FALSE, canSign |-> TRUE], err |-> ""]
    ELSE IF der = "pkcs1-small" THEN [key |-> [nil |-> FALSE, canSign |-> FALSE], err |-> ""]
    ELSE [key |-> NilKey, err |-> "x509: failed to parse"]

\* parsePrivateKey without the fallback of lines 876-878.
parsePrivateKeyPemOnly(key) ==
    LET block == pemDecode(key)
    IN IF block.nil THEN [key |-> NilKey, err |-> "unable to parse private key"]
       ELSE IF block.Type = "PRIVATE KEY" THEN parsePKCS8(block.der)
       ELSE parsePKCS1(block.der)

\* parsePrivateKey (lines 874-893): [key, err].
parsePrivateKey(key) ==
    LET b1 == pemDecode(key)
        block == IF b1.nil THEN pemBlockFromBase64(key) ELSE b1
    IN IF block.nil THEN [key |-> NilKey, err |-> "unable to parse private key"]
       ELSE IF block.Type = "PRIVATE KEY" THEN parsePKCS8(block.der)
       ELSE parsePKCS1(block.der)

\* The Config values NewClient is called with.
CfgInputs ==
    [TigerID : {<<>>, sTigerId},
     Account : {<<>>},
     SecretKey : {<<>>},
     PrivateKey : KeyInputs,
     DeviceID : {<<>>, sDevice},
     NotifyURL : {<<>>, sNotify},
     Charset : {<<>>},
     SignType : {<<>>},
     Version : {<<>>},
     Lang : {<<>>}]

NoCfg == [TigerID |-> <<>>, Account |-> <<>>, SecretKey |-> <<>>,
          PrivateKey |-> [form |-> "empty", blockType |-> "", der |-> ""],
          DeviceID |-> <<>>, NotifyURL |-> <<>>, Charset |-> <<>>, SignType |-> <<>>,
          Version |-> <<>>, Lang |-> <<>>]
NoClient == [nil |-> TRUE, cfg |-> NoCfg, privateKey |-> NilKey]

\* NewClient's defaults (lines 679-696) for the fields Client.call reads.
withDefaults(cfg) ==
    [cfg EXCEPT !.Charset = IF @ = <<>> THEN defaultCharset ELSE @,
                !.SignType = IF @ = <<>> THEN defaultSignType ELSE @,
                !.Version = IF @ = <<>> THEN defaultVersion ELSE @,
                !.Lang = IF @ = <<>> THEN defaultLang ELSE @]

\* NewClient(cfg) (lines 666-711): [client, err].
newClient(cfg) ==
    IF cfg.TigerID = <<>> THEN [client |-> NoClient, err |-> "tiger_id is required"]
    ELSE IF cfg.PrivateKey.form = "empty"
         THEN [client |-> NoClient, err |-> "private key is required"]
    ELSE LET p == parsePrivateKey(cfg.PrivateKey)
         IN IF p.err /= "" THEN [client |-> NoClient, err |-> "parse private key"]
            ELSE [client |-> [nil |-> FALSE, cfg |-> withDefaults(cfg), privateKey |-> p.key],
                  err |-> ""]

NoNew == [called |-> FALSE, cfg |-> NoCfg, err |-> ""]

Callers == {"g1", "g2"}

\* A decoded response whose code is 0 and whose data is empty, and what an
\* operation has returned: (nil, err), or (result, err) with the result's
\* Response and the code of its decoded data.
NoData == [kind |-> "empty", code |-> <<"absent", 0>>]
NoResp == [code |-> 0, data |-> NoData]
NoResult == [returned |-> FALSE, nil |-> TRUE, Response |-> NoResp, Code |-> 0, err |-> ""]

NoCall == [pc |-> "idle", method |-> <<>>, biz |-> <<"null", 0>>, bizContent |-> <<>>,
           params |-> <<>>, signContent |-> <<>>, signature |-> <<>>,
           body |-> <<>>, err |-> "", resp |-> NoResp, result |-> NoResult]

ClientIdle ==
    /\ client = NoClient /\ newRes = NoNew
    /\ calls = [c \in Callers |-> NoCall] /\ net = {}

\* What the four operations hand to Client.call: the method name and the
\* business parameters their request's toBiz built.
mapOf2(k1, v1, k2, v2) == [k \in {k1, k2} |-> IF k = k1 THEN v1 ELSE v2]
CallInputs ==
    {[method |-> sAssets,
      biz |-> <<"map", mapOf2(kAccount, <<"str", sAcct>>, kSegment, <<"bool", TRUE>>)>>],
     [method |-> sPlaceOrder,
      biz |-> <<"map", mapOf2(kAccount, <<"str", sAcct>>, kUserMark, <<"str", sMark>>)>>],
     [method |-> sPlaceOrder,
      biz |-> <<"map", mapOf2(kAccount, <<"str", sAcct>>,
                              kLimitPrice, <<"nonfinite", "NaN">>)>>]}

\* The seconds time.Now() may show, and Format("2006-01-02 15:04:05").
Clock == {5, 59}
timeFormat(sec) == timePrefix \o <<48 + (sec \div 10), 48 + (sec % 10)>>

\* The iteration orders a range over the envelope's fields is checked for.
CallSeeds == {0, 7, 40319}

\* marshalBizContent (lines 922-924).
marshalBizContent(biz, seed) == marshalDeterministic(biz, seed)

\* marshalRequestBody written with the compact encoder.
marshalRequestBodyCompact(params) == marshalDeterministic(<<"map", params>>, 0)

\* marshalRequestBody (lines 913-919).
marshalRequestBody(params) == marshalWithSpaces(<<"map", params>>)

\* The params map of Client.call before signing (lines 807-821).
envelope(method, cfg, bizContent, now) ==
    LET fixed == {kMethod, kVersion, kBizContent, kTimestamp, kTigerId, kCharset, kSignType}
        keys == fixed
                \cup (IF cfg.DeviceID /= <<>> THEN {kDeviceId} ELSE {})
                \cup (IF cfg.NotifyURL /= <<>> THEN {kNotifyUrl} ELSE {})
    IN [k \in keys |->
          <<"str",
            CASE k = kMethod -> method
              [] k = kVersion -> cfg.Version
              [] k = kBizContent -> bizContent
              [] k = kTimestamp -> timeFormat(now)
              [] k = kTigerId -> cfg.TigerID
              [] k = kCharset -> cfg.Charset
              [] k = kSignType -> cfg.SignType
              [] k = kDeviceId -> cfg.DeviceID
              [] k = kNotifyUrl -> cfg.NotifyURL>>]

\* params["sign"] = signature, were params a mapping that all calls in
\* flight share: another call's signature may be the one that stays.
withSignShared(params, signature) ==
    LET others == {calls[d].signature : d \in Callers} \ {<<>>, signature}
    IN [k \in (DOMAIN params) \cup {kSign} |->
          IF k = kSign
            THEN <<"str", IF others /= {} THEN CHOOSE x \in others : TRUE ELSE signature>>
            ELSE params[k]]

\* params["sign"] = signature (line 831).
withSign(params, signature) ==
    [k \in (DOMAIN params) \cup {kSign} |->
        IF k = kSign THEN <<"str", signature>> ELSE params[k]]

\* A stand-in for the SHA-1 digest: a checksum of every byte and its place.
RECURSIVE Digest(_, _, _)
Digest(content, lo, hi) ==
    IF lo > hi THEN 7
    ELSE IF lo = hi THEN (content[lo] * (lo + 1)) % 9973
    ELSE LET mid == (lo + hi) \div 2
         IN (31 * Digest(content, lo, mid) + Digest(content, mid + 1, hi)) % 9973

\* signSHA1WithRSA (lines 89-96): the base64 text of the signature of the
\* content's digest, or rsa.SignPKCS1v15's error.
signSHA1WithRSA(privateKey, content) ==
    IF ~privateKey.canSign THEN Err(<<>>)
    ELSE Ok(<<83>> \o Itoa(Digest(content, 1, Len(content))) \o <<47, 61>>)

\* `if err != nil` after a step of Client.call (lines 803, 824, 828, 834).
stepFailedIgnored(r) == FALSE
stepFailed(r) == r.err

\* NewClient(cfg): fails, or stores the client.
NewClient ==
    /\ client.nil
    /\ \A c \in Callers : calls[c].pc = "idle"
    /\ \E cfg \in CfgInputs :
          LET r == newClient(cfg)
          IN /\ client' = r.client
             /\ newRes' = [called |-> TRUE, cfg |-> cfg, err |-> r.err]
    /\ UNCHANGED <<encVars, scanVars, calls, net>>

\* GetAssets, PlaceOrder, ... enter c.call(ctx, method, biz) (line 797).
CallStart(c) ==
    /\ ~client.nil /\ calls[c].pc = "idle"
    /\ \E in \in CallInputs :
          calls' = [calls EXCEPT ![c] = [@ EXCEPT !.pc = "start",
                                                  !.method = in.method,
                                                  !.biz = in.biz]]
    /\ UNCHANGED <<encVars, scanVars, client, newRes, net>>

\* bizContent, err := marshalBizContent(biz) (lines 798-805).
StepMarshalBiz(c) ==
    /\ calls[c].pc = "start"
    /\ \E seed \in Seeds :
          LET r == marshalBizContent(calls[c].biz, seed)
          IN calls' = [calls EXCEPT ![c] =
                IF stepFailed(r)
                  THEN [@ EXCEPT !.pc = "returned", !.err = "marshal biz_content"]
                  ELSE [@ EXCEPT !.pc = "bizEncoded", !.bizContent = Bytes(r.out)]]
    /\ UNCHANGED <<encVars, scanVars, client, newRes, net>>

\* params := ...; signContent, err := buildSignContent(params) (807-826).
StepSignContent(c) ==
    /\ calls[c].pc = "bizEncoded"
    /\ \E now \in Clock, seed \in CallSeeds :
          LET params == envelope(calls[c].method, client.cfg, calls[c].bizContent, now)
              r == buildSignContent(params, seed)
          IN calls' = [calls EXCEPT ![c] =
                IF stepFailed(r)
                  THEN [@ EXCEPT !.pc = "returned", !.params = params,
                                 !.err = "build sign content"]
                  ELSE [@ EXCEPT !.pc = "signContentBuilt", !.params = params,
                                 !.signContent = r.out]]
    /\ UNCHANGED <<encVars, scanVars, client, newRes, net>>

\* signature, err := signSHA1WithRSA(...); params["sign"] = signature (827-831).
StepSign(c) ==
    /\ calls[c].pc = "signContentBuilt"
    /\ LET r == signSHA1WithRSA(client.privateKey, calls[c].signContent)
       IN calls' = [calls EXCEPT ![c] =
             IF stepFailed(r)
               THEN [@ EXCEPT !.pc = "returned", !.err = "sign content"]
               ELSE [@ EXCEPT !.pc = "signed", !.signature = r.out,
                              !.params = withSign(@, r.out)]]
    /\ UNCHANGED <<encVars, scanVars, client, newRes, net>>

\* body, err := marshalRequestBody(params) (lines 833-836).
StepEncode(c) ==
    /\ calls[c].pc = "signed"
    /\ LET r == marshalRequestBody(calls[c].params)
       IN calls' = [calls EXCEPT ![c] =
             IF stepFailed(r)
               THEN [@ EXCEPT !.pc = "returned", !.err = "encode request"]
               ELSE [@ EXCEPT !.pc = "encoded", !.body = r.out]]
    /\ UNCHANGED <<encVars, scanVars, client, newRes, net>>

\* http.NewRequestWithContext and c.httpClient.Do(req) (lines 838-850): the
\* body goes out.
StepDo(c) ==
    /\ calls[c].pc = "encoded"
    /\ net' = net \cup {[from |-> c, body |-> Bytes(calls[c].body)]}
    /\ calls' = [calls EXCEPT ![c].pc = "sent"]
    /\ UNCHANGED <<encVars, scanVars, client, newRes>>

\* The rest of Client.call (lines 851-871): an error (of the transport, a
\* status other than 200, an unreadable or undecodable response), or the
\* decoded response.
StepReturn(c) ==
    /\ calls[c].pc = "sent"
    /\ \E e \in {"response error", ""} :
          calls' = [calls EXCEPT ![c] = [@ EXCEPT !.pc = "returned", !.err = e]]
    /\ UNCHANGED <<encVars, scanVars, client, newRes, net>>

Init ==
    /\ EncIdle /\ ScanIdle /\ ClientIdle

Next ==
    \/ NewClient
    \/ \E c \in Callers :
          \/ CallStart(c)
          \/ StepMarshalBiz(c)
          \/ StepSignContent(c)
          \/ StepSign(c)
          \/ StepEncode(c)
          \/ StepDo(c)
          \/ StepReturn(c)

Spec == Init /\ [][Next]_vars

\* --------------------------------------------- the pure functions, applied
InitEnc ==
    /\ val \in Values
    /\ op = "none" /\ res = NoRes /\ res2 = NoRes
    /\ ScanIdle
    /\ ClientIdle

CallMarshalDeterministic ==
    /\ op = "none"
    /\ \E seed \in Seeds :
          res' = Result(marshalDeterministic(val, seed))
    /\ op' = "marshalDeterministic"
    /\ UNCHANGED <<val, res2, scanVars, clientVars>>

\* A second call on the same value: every range statement draws a fresh order.
RepeatMarshalDeterministic ==
    /\ op = "marshalDeterministic" /\ ~res2.done
    /\ \E seed \in Seeds :
          res2' = Result(marshalDeterministic(val, seed))
    /\ UNCHANGED <<val, op, res, scanVars, clientVars>>

CallMarshalWithSpaces ==
    /\ op = "none"
    /\ res' = Result(marshalWithSpaces(val))
    /\ op' = "marshalWithSpaces"
    /\ UNCHANGED <<val, res2, scanVars, clientVars>>

CallBuildSignContent ==
    /\ op = "none" /\ val[1] = "map"
    /\ \E seed \in Seeds :
          res' = Result(buildSignContent(val[2], seed))
    /\ op' = "buildSignContent"
    /\ UNCHANGED <<val, res2, scanVars, clientVars>>

RepeatBuildSignContent ==
    /\ op = "buildSignContent" /\ ~res2.done
    /\ \E seed \in Seeds :
          res2' = Result(buildSignContent(val[2], seed))
    /\ UNCHANGED <<val, op, res, scanVars, clientVars>>

\* buildSignContent(nil): len(params) is 0 and the range of lines 19-21
\* runs no iteration, as for a mapping without fields.
NilParams == [k \in {} |-> <<"null", 0>>]
CallBuildSignContentNil ==
    /\ op = "none" /\ val = <<"null", 0>>
    /\ \E seed \in Seeds :
          res' = Result(buildSignContent(NilParams, seed))
    /\ op' = "buildSignContent(nil)"
    /\ UNCHANGED <<val, res2, scanVars, clientVars>>

NextEnc ==
    \/ CallMarshalDeterministic
    \/ RepeatMarshalDeterministic
    \/ CallMarshalWithSpaces
    \/ CallBuildSignContent
    \/ RepeatBuildSignContent
    \/ CallBuildSignContentNil

SpecEnc == InitEnc /\ [][NextEnc]_vars

\* ------------------------------- the operations, after the request is sent
sPositions == <<112, 111, 115, 105, 116, 105, 111, 110, 115>>    \* "positions"
sCancelOrder == <<99, 97, 110, 99, 101, 108, 95, 111, 114, 100, 101, 114>>    \* "cancel_order"
kId == <<105, 100>>    \* "id"

\* GetAssets, GetPositions, PlaceOrder and CancelOrder: the method and the
\* biz each hands to Client.call.
OpInputs ==
    {[method |-> m, biz |-> <<"map", [k \in {kAccount} |-> <<"str", sAcct>>]>>] :
        m \in {sAssets, sPositions, sPlaceOrder}}
    \cup {[method |-> sCancelOrder,
           biz |-> <<"map", mapOf2(kAccount, <<"str", sAcct>>, kId, <<"int", 7>>)>>]}

\* The "code" member of the data object as the server wrote it: absent,
\* null, a number, or a quoted string ("", a decimal, or no number at all).
DataCodes ==
    {<<"absent", 0>>, <<"null", 0>>, <<"num", 0>>, <<"num", 1010>>,
     <<"quoted", 0>>, <<"quoted", 1010>>, <<"quotedEmpty", 0>>, <<"quotedText", 0>>}

\* The "data" member of the response: missing or empty, a JSON object, a
\* JSON string holding the text of a JSON object, or text that is no JSON.
DataInputs ==
    {NoData, [kind |-> "garbage", code |-> <<"absent", 0>>]}
    \cup {[kind |-> k, code |-> dc] : k \in {"object", "string"}, dc \in DataCodes}

\* What json.Unmarshal(bodyBytes, &result) may have stored (line 866).
Responses == [code : {0, 1000}, data : DataInputs]

\* APIResponse.NormalizeData (lines 24-35): data given as a JSON string is
\* replaced by the string's content.
NormalizeData(r) ==
    IF r.data.kind = "string" THEN [r EXCEPT !.data.kind = "object"] ELSE r

\* IntOrString.UnmarshalJSON (lines 498-526), for a "code" member that is
\* present: [err, v].  An absent member leaves the zero value.
intOrString(dc) ==
    CASE dc[1] \in {"absent", "null", "quotedEmpty"} -> [err |-> FALSE, v |-> 0]
      [] dc[1] \in {"num", "quoted"} -> [err |-> FALSE, v |-> dc[2]]
      [] OTHER -> [err |-> TRUE, v |-> 0]

\* json.Unmarshal(resp.Data, &payload) for an OrderIDData and for an
\* assetsWrapper / positionsWrapper (which has no "code" member): [err, Code].
decodeOrderData(data) ==
    IF data.kind = "object" THEN LET c == intOrString(data.code)
                                 IN [err |-> c.err, Code |-> c.v]
    ELSE [err |-> TRUE, Code |-> 0]
decodeItemsData(data) == [err |-> data.kind /= "object", Code |-> 0]

\* `payload.Code != "" && payload.Code != "0"` (lines 770, 791): the decoded
\* code stands for neither the empty string nor "0".
codeRejected(code) == code /= 0

\* GetAssets / GetPositions after c.call returned resp (lines 717-731,
\* 738-752), and PlaceOrder / CancelOrder (lines 759-773, 780-794).
itemsResult(resp) ==
    IF resp.data.kind /= "empty" /\ decodeItemsData(resp.data).err
      THEN [NoResult EXCEPT !.returned = TRUE, !.err = "decode data"]
      ELSE [returned |-> TRUE, nil |-> FALSE, Response |-> resp, Code |-> 0, err |-> ""]
orderResult(resp) ==
    LET d == IF resp.data.kind = "empty" THEN [err |-> FALSE, Code |-> 0]
             ELSE decodeOrderData(resp.data)
    IN IF d.err THEN [NoResult EXCEPT !.returned = TRUE, !.err = "decode response"]
       ELSE [returned |-> TRUE, nil |-> FALSE, Response |-> resp, Code |-> d.Code,
             err |-> IF codeRejected(d.Code) THEN "rejected" ELSE ""]
opResult(method, callErr, resp) ==
    IF callErr /= "" THEN [NoResult EXCEPT !.returned = TRUE, !.err = callErr]
    ELSE IF method \in {sAssets, sPositions} THEN itemsResult(resp)
    ELSE orderResult(resp)

\* A Client with a PKCS#1 key in a PEM block, and the locals of a call of
\* Client.call on it once httpClient.Do has been handed the request.
cfgPem ==
    [NoCfg EXCEPT !.TigerID = sTigerId,
                  !.PrivateKey = [form |-> "pem", blockType |-> "RSA PRIVATE KEY",
                                  der |-> "pkcs1"]]
SentCall(cl, in, now) ==
    LET bizContent == Bytes(marshalBizContent(in.biz, 0).out)
        params == envelope(in.method, cl.cfg, bizContent, now)
        signContent == buildSignContent(params, 0).out
        signature == signSHA1WithRSA(cl.privateKey, signContent).out
        signed == withSign(params, signature)
    IN [NoCall EXCEPT !.pc = "sent", !.method = in.method, !.biz = in.biz,
                      !.bizContent = bizContent, !.params = signed,
                      !.signContent = signContent, !.signature = signature,
                      !.body = marshalRequestBody(signed).out]

InitResp ==
    /\ EncIdle /\ ScanIdle
    /\ client = newClient(cfgPem).client
    /\ newRes = [called |-> TRUE, cfg |-> cfgPem, err |-> ""]
    /\ \E in \in OpInputs, now \in Clock :
          /\ calls = [c \in Callers |->
                        IF c = "g1" THEN SentCall(client, in, now) ELSE NoCall]
          /\ net = {[from |-> "g1", body |-> Bytes(calls["g1"].body)]}

\* The rest of Client.call (lines 851-871): an error, or the decoded and
\* normalised response.
CallReturn(c) ==
    /\ calls[c].pc = "sent"
    /\ \/ calls' = [calls EXCEPT ![c] = [@ EXCEPT !.pc = "callReturned",
                                                  !.err = "response error"]]
       \/ \E r \in Responses :
             calls' = [calls EXCEPT ![c] = [@ EXCEPT !.pc = "callReturned",
                                                    !.resp = NormalizeData(r)]]
    /\ UNCHANGED <<encVars, scanVars, client, newRes, net>>

\* The operation returns to its caller.
OpReturn(c) ==
    /\ calls[c].pc = "callReturned"
    /\ calls' = [calls EXCEPT ![c] =
          [@ EXCEPT !.pc = "returned",
                    !.result = opResult(calls[c].method, calls[c].err,
                                        calls[c].resp)]]
    /\ UNCHANGED <<encVars, scanVars, client, newRes, net>>

NextResp == \E c \in Callers : CallReturn(c) \/ OpReturn(c)

SpecResp == InitResp /\ [][NextResp]_vars

\* ------------------------------------------------ toBiz (types.go:37-450)
\* A request is a record of its struct's fields; a pointer field holds
\* <<"null", 0>> (nil) or <<"ptr", v>>.  A biz mapping has its keys as
\* strings here.  Each table lists, in the order of the source, the key a
\* toBiz writes, the field it writes it from and the field's Go type.
AssetsRequestFields ==
    << <<"account", "Account", "string">>,
       <<"secret_key", "SecretKey", "string">>,
       <<"segment", "Segment", "bool">>,
       <<"market_value", "MarketValue", "bool">>,
       <<"sub_accounts", "SubAccounts", "[]string">>,
       <<"base_currency", "BaseCurrency", "string">>,
       <<"consolidated", "Consolidated", "*bool">>,
       <<"lang", "Language", "string">> >>

PositionsRequestFields ==
    << <<"account", "Account", "string">>,
       <<"secret_key", "SecretKey", "string">>,
       <<"symbol", "Symbol", "string">>,
       <<"sec_type", "SecType", "string">>,
       <<"currency", "Currency", "string">>,
       <<"market", "Market", "string">>,
       <<"sub_accounts", "SubAccounts", "[]string">>,
       <<"expiry", "Expiry", "string">>,
       <<"strike", "Strike", "*float64">>,
       <<"right", "PutCall", "string">>,
       <<"asset_quote_type", "AssetQuoteType", "string">>,
       <<"lang", "Language", "string">> >>

CancelOrderRequestFields ==
    << <<"account", "Account", "string">>,
       <<"secret_key", "SecretKey", "string">>,
       <<"order_id", "OrderID", "*int64">>,
       <<"id", "ID", "*int64">>,
       <<"lang", "Language", "string">> >>

OrdersRequestFields ==
    << <<"account", "Account", "string">>,
       <<"secret_key", "SecretKey", "string">>,
       <<"symbol", "Symbol", "string">>,
       <<"sec_type", "SecType", "string">>,
       <<"market", "Market", "string">>,
       <<"status", "Status", "string">>,
       <<"start_time", "StartTime", "*int64">>,
       <<"end_time", "EndTime", "*int64">>,
       <<"limit", "Limit", "*int">>,
       <<"next_page_token", "NextPageToken", "string">>,
       <<"seg_type", "SegType", "string">>,
       <<"lang", "Language", "string">> >>

ContractFields ==
    << <<"symbol", "Symbol", "string">>,
       <<"currency", "Currency", "string">>,
       <<"sec_type", "SecType", "string">>,
       <<"exchange", "Exchange", "string">>,
       <<"local_symbol", "LocalSymbol", "string">>,
       <<"expiry", "Expiry", "string">>,
       <<"strike", "Strike", "*float64">>,
       <<"right", "PutCall", "string">>,
       <<"multiplier", "Multiplier", "string">> >>

ContractLegFields ==
    << <<"ratio", "Ratio", "int">>,
       <<"action", "Action", "string">> >>

OrderFields ==
    << <<"account", "Account", "string">>,
       <<"secret_key", "SecretKey", "string">>,
       <<"id", "ID", "*int64">>,
       <<"order_id", "OrderID", "*int64">>,
       <<"order_type", "OrderType", "string">>,
       <<"action", "Action", "string">>,
       <<"total_quantity", "Quantity", "float64">>,
       <<"total_quantity_scale", "QuantityScale", "*int">>,
       <<"limit_price", "LimitPrice", "*float64">>,
       <<"aux_price", "AuxPrice", "*float64">>,
       <<"trail_stop_price", "TrailStopPrice", "*float64">>,
       <<"trailing_percent", "TrailingPercent", "*float64">>,
       <<"percent_offset", "PercentOffset", "*float64">>,
       <<"time_in_force", "TimeInForce", "string">>,
       <<"outside_rth", "OutsideRTH", "*bool">>,
       <<"adjust_limit", "AdjustLimit", "*bool">>,
       <<"user_mark", "UserMark", "string">>,
       <<"expire_time", "ExpireTime", "*int64">>,
       <<"combo_type", "ComboType", "string">>,
       <<"cash_amount", "TotalCashAmount", "*float64">>,
       <<"trading_session_type", "TradingSessionType", "string">>,
       <<"lang", "Language", "string">> >>

\* The zero value of a Go type, and the values an input sets a field to.
ZeroOf(type) ==
    CASE type = "string" -> <<"str", <<>>>>
      [] type = "bool" -> <<"bool", FALSE>>
      [] type = "int" -> <<"int", 0>>
      [] type = "float64" -> <<"float", 0>>
      [] type = "[]string" -> <<"seq", <<>>>>
      [] OTHER -> <<"null", 0>>
SetValues(type) ==
    CASE type = "string" -> {<<"str", <<65>>>>}
      [] type = "bool" -> {<<"bool", TRUE>>}
      [] type = "int" -> {<<"int", 2>>}
      [] type = "float64" -> {<<"float", 10>>}
      [] type = "[]string" -> {<<"seq", <<<<"str", <<65>>>>>>>>}
      [] type = "*bool" -> {<<"ptr", <<"bool", FALSE>>>>, <<"ptr", <<"bool", TRUE>>>>}
      [] type = "*float64" -> {<<"ptr", <<"float", 0>>>>, <<"ptr", <<"float", 15>>>>}
      [] OTHER -> {<<"ptr", <<"int", 0>>>>, <<"ptr", <<"int", 7>>>>}

\* The test a toBiz puts before writing a field of the given type
\* (`!= ""`, `!= nil`, `if r.Segment`, `!= 0`, `len(...) > 0`; none for
\* Order.Quantity, the one float64, line 403), and the value it writes.
isSet(type, v) ==
    CASE type = "string" -> v /= <<"str", <<>>>>
      [] type = "bool" -> v[2]
      [] type = "int" -> v[2] /= 0
      [] type = "float64" -> TRUE
      [] type = "[]string" -> Len(v[2]) > 0
      [] OTHER -> v /= <<"null", 0>>
written(type, v) == IF type \in {"*bool", "*float64", "*int64", "*int"} THEN v[2] ELSE v

fieldsToBiz(table, r) ==
    LET set == {i \in DOMAIN table : isSet(table[i][3], r[table[i][2]])}
    IN [k \in {table[i][1] : i \in set} |->
          LET i == CHOOSE j \in set : table[j][1] = k
          IN written(table[i][3], r[table[i][2]])]

\* biz[k] = v for every k, v of g, on top of f.
Merge(f, g) ==
    [k \in (DOMAIN f) \cup (DOMAIN g) |-> IF k \in DOMAIN g THEN g[k] ELSE f[k]]

\* account, secret and lang of a toBiz: the request's, else the Config's.
withCfg(r, cfg) ==
    [r EXCEPT !.Account = IF @ = <<"str", <<>>>> THEN <<"str", cfg.Account>> ELSE @,
              !.SecretKey = IF @ = <<"str", <<>>>> THEN <<"str", cfg.SecretKey>> ELSE @,
              !.Language = IF @ = <<"str", <<>>>> THEN <<"str", cfg.Lang>> ELSE @]

AssetsRequest_toBiz(r, cfg) == fieldsToBiz(AssetsRequestFields, withCfg(r, cfg))
PositionsRequest_toBiz(r, cfg) == fieldsToBiz(PositionsRequestFields, withCfg(r, cfg))
CancelOrderRequest_toBiz(r, cfg) == fieldsToBiz(CancelOrderRequestFields, withCfg(r, cfg))
OrdersRequest_toBiz(r, cfg) == fieldsToBiz(OrdersRequestFields, withCfg(r, cfg))
Contract_toBiz(c) == fieldsToBiz(ContractFields, c)
ContractLeg_toBiz(c) == Merge(Contract_toBiz(c), fieldsToBiz(ContractLegFields, c))

sMLEG == <<77, 76, 69, 71>>    \* "MLEG"
\* Order.toBiz (lines 357-450): the contract's fields, then contract_legs
\* (with sec_type "MLEG" when the contract gave none), then the order's.
Order_toBiz(o, cfg) ==
    LET contract == Contract_toBiz(o.Contract)
        legs == IF Len(o.ContractLegs) > 0
                  THEN [k \in {"contract_legs"}
                               \cup (IF "sec_type" \in DOMAIN contract THEN {}
                                     ELSE {"sec_type"}) |->
                          IF k = "contract_legs"
                            THEN <<"seq", [i \in DOMAIN o.ContractLegs |->
                                            <<"map", ContractLeg_toBiz(o.ContractLegs[i])>>]>>
                            ELSE <<"str", sMLEG>>]
                  ELSE [k \in {} |-> <<"null", 0>>]
    IN Merge(Merge(contract, legs), fieldsToBiz(OrderFields, withCfg(o, cfg)))

\* The requests toBiz is applied to: all fields zero, or up to two of them
\* set (for an Order: one field, one field of its contract, and its legs).
ZeroReq(table) ==
    [f \in {table[i][2] : i \in DOMAIN table} |->
        ZeroOf(table[CHOOSE i \in DOMAIN table : table[i][2] = f][3])]
OneSet(table, r) ==
    {r} \cup UNION {{[r EXCEPT ![table[i][2]] = v] : v \in SetValues(table[i][3])} :
                       i \in DOMAIN table}
ReqInputs(table) == UNION {OneSet(table, r) : r \in OneSet(table, ZeroReq(table))}
ContractInputs == OneSet(ContractFields, ZeroReq(ContractFields))
LegInputs ==
    LET zero == ZeroReq(ContractFields \o ContractLegFields)
        leg == [zero EXCEPT !.Symbol = <<"str", <<65>>>>, !.Ratio = <<"int", 2>>]
    IN {<<>>, <<zero>>, <<leg, [leg EXCEPT !.SecType = <<"str", <<65>>>>]>>}
OrderInputs ==
    {[f \in (DOMAIN o) \cup {"Contract", "ContractLegs"} |->
        IF f = "Contract" THEN c ELSE IF f = "ContractLegs" THEN l ELSE o[f]] :
        o \in OneSet(OrderFields, ZeroReq(OrderFields)), c \in ContractInputs, l \in LegInputs}

\* The Config NewClient was given: account, secret key and language left
\* empty, or one of them set.
sSecret == <<107>>    \* "k"
sLangZh == <<122, 104, 95, 67, 78>>    \* "zh_CN"
BizCfgs ==
    {cfgPem, [cfgPem EXCEPT !.Account = sAcct], [cfgPem EXCEPT !.SecretKey = sSecret],
     [cfgPem EXCEPT !.Lang = sLangZh]}

ReqsOf(type, reqs) ==
    {<<"req", [type |-> type, r |-> r, cfg |-> cfg]>> : r \in reqs, cfg \in BizCfgs}
BizInputs ==
    ReqsOf("AssetsRequest", ReqInputs(AssetsRequestFields))
    \cup ReqsOf("PositionsRequest", ReqInputs(PositionsRequestFields))
    \cup ReqsOf("CancelOrderRequest", ReqInputs(CancelOrderRequestFields))
    \cup ReqsOf("OrdersRequest", ReqInputs(OrdersRequestFields))
    \cup ReqsOf("Order", OrderInputs)

InitBiz ==
    /\ val \in BizInputs
    /\ op = "none" /\ res = NoRes /\ res2 = NoRes
    /\ ScanIdle
    /\ ClientIdle

\* req.toBiz(c.cfg), as GetAssets, GetPositions, CancelOrder and PlaceOrder
\* call it (lines 715, 736, 778, 757) on the Config NewClient completed;
\* OrdersRequest.toBiz likewise.
toBizOf(type, r, cfg) ==
    CASE type = "AssetsRequest" -> AssetsRequest_toBiz(r, cfg)
      [] type = "PositionsRequest" -> PositionsRequest_toBiz(r, cfg)
      [] type = "CancelOrderRequest" -> CancelOrderRequest_toBiz(r, cfg)
      [] type = "OrdersRequest" -> OrdersRequest_toBiz(r, cfg)
      [] type = "Order" -> Order_toBiz(r, cfg)
CallToBiz(type) ==
    /\ op = "none" /\ val[2].type = type
    /\ res' = Result(Ok(<<"map", toBizOf(type, val[2].r, withDefaults(val[2].cfg))>>))
    /\ op' = "toBiz"
    /\ UNCHANGED <<val, res2, scanVars, clientVars>>

NextBiz ==
    \/ CallToBiz("AssetsRequest")
    \/ CallToBiz("PositionsRequest")
    \/ CallToBiz("CancelOrderRequest")
    \/ CallToBiz("OrdersRequest")
    \/ CallToBiz("Order")

SpecBiz == InitBiz /\ [][NextBiz]_vars

\* ------------------------------ the encoders on values outside the union
\* Values an interface{} can hold that are no ParameterValue: a channel, a
\* struct{B int; A string}{2, "a"}, a json.RawMessage holding " 1" and one
\* holding "{"; and the two non-finite floats.
vChan == <<"chan", 0>>
vStruct == <<"struct", << <<<<66>>, <<"int", 2>>>>, <<<<65>>, <<"str", <<97>>>>>> >> >>
vRawValid == <<"raw", [text |-> <<chSpace, 49>>, valid |-> TRUE]>>
vRawInvalid == <<"raw", [text |-> <<123>>, valid |-> FALSE]>>
Unrepresentables ==
    {vChan, vStruct, vRawValid, vRawInvalid, <<"nonfinite", "NaN">>, <<"nonfinite", "+Inf">>}

\* x alone, and x as an element at depth one and two of a container.
Wrapped(x) ==
    LET inMap(k, v) == <<"map", [j \in {k} |-> v]>>
        beside(v) == <<"map", [j \in {<<97>>, <<122>>} |->
                                 IF j = <<97>> THEN v ELSE <<"int", 1>>]>>
    IN {x, <<"seq", <<x>>>>, <<"seq", <<<<"int", 1>>, x>>>>,
        inMap(<<97>>, x), beside(x),
        inMap(<<97>>, <<"seq", <<x>>>>), <<"seq", <<inMap(<<97>>, x)>>>>}

ErrInputs ==
    UNION {Wrapped(x) : x \in Unrepresentables}
    \cup Wrapped(<<"int", 1>>) \cup Wrapped(<<"str", <<97>>>>)
    \cup {<<"null", 0>>, <<"map", NilParams>>}

InitErr ==
    /\ val \in ErrInputs
    /\ op = "none" /\ res = NoRes /\ res2 = NoRes
    /\ ScanIdle
    /\ ClientIdle

SpecErr == InitErr /\ [][NextEnc]_vars

\* ------------------------------------------- marshalWithSpaces, stepped
\* json.Marshal has returned raw without error (line 48-51); the loop of
\* lines 55-85 has not started.
InitScan ==
    /\ \E v \in Values :
          /\ ~JsonMarshal(v).err
          /\ val = v
          /\ raw = JsonMarshal(v).out
    /\ op = "marshalWithSpaces" /\ res = NoRes /\ res2 = NoRes
    /\ pos = 0 /\ scan = scanInit /\ scanned = FALSE
    /\ ClientIdle

\* One iteration of the loop.
ScanStep ==
    /\ ~scanned /\ pos < Len(raw)
    /\ scan' = scanByte(scan, raw[pos + 1])
    /\ pos' = pos + 1
    /\ UNCHANGED <<encVars, raw, scanned, clientVars>>

\* return out.String(), nil (line 86).
ScanReturn ==
    /\ ~scanned /\ pos = Len(raw)
    /\ scanned' = TRUE
    /\ res' = Result(Ok(scan.out))
    /\ UNCHANGED <<val, op, res2, raw, pos, scan, clientVars>>

NextScan == ScanStep \/ ScanReturn

SpecScan == InitScan /\ [][NextScan]_vars


\* ================================================================ claims
\* The keys of S in strictly ascending order of Go's string comparison,
\* stated declaratively (no sorting algorithm).
Ascending(S) ==
    [i \in 1..Cardinality(S) |->
        CHOOSE k \in S : Cardinality({j \in S : StrLess(j, k)}) = i - 1]

RECURSIVE JoinWith(_, _)
JoinWith(parts, sep) ==
    IF parts = <<>> THEN <<>>
    ELSE IF Len(parts) = 1 THEN parts[1]
    ELSE parts[1] \o sep \o JoinWith(Tail(parts), sep)

\* name=value for every field of f, in ascending order of name, joined by '&'.
RefSignContent(f) ==
    LET ks == Ascending(DOMAIN f)
    IN JoinWith([i \in 1..Len(ks) |-> ks[i] \o <<chEq>> \o signValue(f[ks[i]]).out],
                <<chAmp>>)

mapZA == [k \in {<<122>>, <<97>>} |-> IF k = <<122>> THEN <<"int", 1>> ELSE <<"int", 2>>]
mapAB == [k \in {<<97>>, <<98>>} |-> IF k = <<97>> THEN <<"int", 1>> ELSE <<"int", 2>>]

\* C2: buildSignContent emits one name=value entry per field, in ascending
\* order of the field names by raw string comparison, joined by '&' with no
\* leading or trailing '&', and a repeated call (another iteration order of
\* the map) returns the same string.
C2_SortedJoined ==
    (op = "buildSignContent" /\ ~res.err) =>
        /\ res.out = RefSignContent(val[2])
        /\ (res2.done => res2 = res)

\* C2 witness: {"z":1,"a":2} has been built, twice, giving "a=2&z=1".
C2_Witness ==
    /\ op = "buildSignContent" /\ val = <<"map", mapZA>>
    /\ res.out = <<97, chEq, 50, chAmp, 122, chEq, 49>>
    /\ res2.done

\* C3 (as claimed): in buildSignContent's output every string field appears
\* verbatim and every other field appears as a spaced-mode encoding OF ITS
\* VALUE, i.e. as text that decodes to that value.
C3_VerbatimOrEncoded ==
    (op = "buildSignContent" /\ ~res.err) =>
        /\ res.out =
              LET ks == Ascending(DOMAIN val[2])
              IN JoinWith([i \in 1..Len(ks) |->
                             ks[i] \o <<chEq>> \o
                             (IF val[2][ks[i]][1] = "str" THEN val[2][ks[i]][2]
                              ELSE Bytes(marshalWithSpaces(val[2][ks[i]]).out))],
                          <<chAmp>>)
        /\ \A k \in DOMAIN val[2] :
              val[2][k][1] /= "str" =>
                  LET d == JsonDecode(signValue(val[2][k]).out)
                  IN d.ok /\ d.v = Norm(val[2][k])

\* The compact canonical encoding with every mapping's keys in ascending
\* order, stated structurally.
RECURSIVE RefCompact(_)
RefCompact(v) ==
    CASE v[1] = "map" ->
            LET ks == Ascending(DOMAIN v[2])
            IN <<123>>
               \o JoinWith([i \in 1..Len(ks) |->
                              Bytes(Quote(ks[i])) \o <<chColon>> \o RefCompact(v[2][ks[i]])],
                           <<chComma>>)
               \o <<125>>
      [] v[1] = "seq" ->
            <<91>> \o JoinWith([i \in 1..Len(v[2]) |-> RefCompact(v[2][i])], <<chComma>>)
            \o <<93>>
      [] v[1] = "str" -> Bytes(Quote(v[2]))
      [] OTHER -> Bytes(JsonMarshal(v).out)

\* C4: marshalDeterministic emits the keys of every mapping, at every depth,
\* in ascending order of their raw strings, and a repeated call on the same
\* value (whatever order the maps are iterated in) returns the same result.
C4_KeysSortedDeterministic ==
    op = "marshalDeterministic" =>
        /\ (~res.err => Bytes(res.out) = RefCompact(val))
        /\ (res.err <=> HasNonFinite(val))
        /\ (res2.done => res2 = res)

\* C4 witness: a mapping of two keys holding a mapping of two keys has been
\* encoded twice.
C4_Witness ==
    /\ op = "marshalDeterministic" /\ res2.done /\ ~res.err
    /\ val[1] = "map" /\ Cardinality(DOMAIN val[2]) >= 2
    /\ \E k \in DOMAIN val[2] :
          val[2][k][1] = "map" /\ Cardinality(DOMAIN val[2][k][2]) >= 2

IsSep(e) == e[2] = "o" /\ (e[1] = chColon \/ e[1] = chComma)
Skeleton(marked) == SelectSeq(marked, LAMBDA e : e[2] = "o" \/ e[2] = "q")

\* C5: outside string literals, compact mode writes no whitespace, and
\* spaced mode writes exactly one space after each ':' and ',' separator
\* and no other whitespace; apart from those spaces the two modes write the
\* same structure.  {"a":1,"b":2} / {"a": 1, "b": 2}.
C5_ModeWhitespace ==
    /\ (op = "marshalDeterministic" /\ ~res.err) =>
          /\ \A i \in DOMAIN res.out : res.out[i][2] /= "s" => ~IsWs(res.out[i][1])
          /\ (val = <<"map", mapAB>> =>
                Bytes(res.out) = <<123, 34, 97, 34, 58, 49, 44, 34, 98, 34, 58, 50, 125>>)
    /\ (op = "marshalWithSpaces" /\ ~res.err) =>
          /\ \A i \in DOMAIN res.out :
                /\ IsSep(res.out[i]) =>
                      /\ i < Len(res.out) /\ res.out[i + 1] = <<chSpace, "i">>
                      /\ ~IsWs(res.out[i + 2][1])
                /\ (res.out[i][2] /= "s" /\ IsWs(res.out[i][1])) =>
                      /\ res.out[i][2] = "i"
                      /\ i > 1 /\ IsSep(res.out[i - 1])
          /\ Skeleton(SelectSeq(res.out, LAMBDA e : e[2] /= "i"))
                = Skeleton(marshalDeterministic(val, 0).out)
          /\ (val = <<"map", mapAB>> =>
                Bytes(res.out) = <<123, 34, 97, 34, 58, 32, 49, 44, 32,
                                   34, 98, 34, 58, 32, 50, 125>>)

\* C5 witness: a mapping of two fields, one of them a string holding a
\* space, has been encoded in spaced mode.
C5_Witness ==
    /\ op = "marshalWithSpaces" /\ ~res.err /\ val[1] = "map"
    /\ Cardinality(DOMAIN val[2]) = 2
    /\ \E i \in DOMAIN res.out : IsSep(res.out[i]) /\ res.out[i][1] = chComma

QuotesIn(marked, n) == Cardinality({i \in 1..n : marked[i][2] = "q"})

\* What the loop has written after n bytes of raw if it copies every byte
\* (through WriteRune) and adds a space after exactly the ':' and ',' that
\* lie outside string literals.
RECURSIVE ExpectedOut(_, _)
ExpectedOut(marked, n) ==
    IF n = 0 THEN <<>>
    ELSE ExpectedOut(marked, n - 1)
         \o Mark(WriteRune(marked[n][1]), marked[n][2])
         \o (IF IsSep(marked[n]) THEN <<<<chSpace, "i">>>> ELSE <<>>)

\* C6: at every point of marshalWithSpaces' loop the in-string flag is true
\* exactly when the bytes consumed so far end inside a string literal (an
\* escaped quote does not toggle it), and a space has been added after
\* exactly the ':' and ',' that lie outside every string literal.
C6_InStringExact ==
    /\ scan.inString <=> (QuotesIn(raw, pos) % 2 = 1)
    /\ (scan.escape => scan.inString)
    /\ scan.out = ExpectedOut(raw, pos)

\* C6 witness: inside a string literal the loop has consumed an escaped
\* quote and then a ':', and the flag is still set.
C6_Witness ==
    /\ pos >= 4 /\ scan.inString
    /\ raw[pos] = <<chColon, "s">>
    /\ raw[pos - 1] = <<chQuote, "s">>
    /\ raw[pos - 2] = <<chBackslash, "s">>

\* C7 (as claimed): for every value without a non-finite float, the compact
\* output of marshalDeterministic is JSON that decodes to the value.
C7_RoundTrip ==
    (op = "marshalDeterministic" /\ ~HasNonFinite(val)) =>
        LET d == JsonDecode(Bytes(res.out))
        IN ~res.err /\ d.ok /\ d.v = Norm(val)


\* ------------------------------------------------ claims on Client.call
\* The fields Client.call signs under configuration cfg.
ExpectedFields(cfg) ==
    {kMethod, kVersion, kBizContent, kTimestamp, kTigerId, kCharset, kSignType}
    \cup (IF cfg.DeviceID /= <<>> THEN {kDeviceId} ELSE {})
    \cup (IF cfg.NotifyURL /= <<>> THEN {kNotifyUrl} ELSE {})

HasBody(cl) == cl.body /= <<>>
SignedFields(cl) == [k \in (DOMAIN cl.params) \ {kSign} |-> cl.params[k]]

\* C1 (as claimed): the signed string is name=value over exactly the
\* envelope fields other than 'sign', and the request body decodes to
\* exactly those fields, each with the value that was signed, plus 'sign'.
C1_SignedIsTransmitted ==
    \A c \in Callers :
        HasBody(calls[c]) =>
            LET signed == SignedFields(calls[c])
                d == JsonDecode(Bytes(calls[c].body))
            IN /\ DOMAIN signed = ExpectedFields(client.cfg)
               /\ calls[c].signContent = RefSignContent(signed)
               /\ d.ok /\ d.v[1] = "map"
               /\ DOMAIN d.v[2] = (DOMAIN signed) \cup {kSign}
               /\ \A k \in DOMAIN signed : d.v[2][k] = signed[k]
               /\ d.v[2][kSign] = <<"str", calls[c].signature>>

\* The positions of the ':' that follow a key in a marked JSON object, in
\* order, and the key (the string literal) that ends before position i.
ColonsOf(marked) ==
    SelectSeq([i \in 1..Len(marked) |-> i],
              LAMBDA i : marked[i] = <<chColon, "o">>)
KeyBefore(marked, i) ==
    LET open == CHOOSE j \in 1..(i - 2) :
                    /\ marked[j][2] = "q"
                    /\ \A k \in (j + 1)..(i - 2) : marked[k][2] /= "q"
    IN Bytes(SubSeq(marked, open + 1, i - 2))
KeysOf(marked) ==
    LET cs == ColonsOf(marked) IN [n \in 1..Len(cs) |-> KeyBefore(marked, cs[n])]

\* C8 (as claimed): the request body is the final envelope in compact mode:
\* sorted keys, and no whitespace outside string literals.
C8_BodyCompact ==
    \A c \in Callers :
        HasBody(calls[c]) =>
            /\ KeysOf(calls[c].body) = Ascending(DOMAIN calls[c].params)
            /\ \A i \in DOMAIN calls[c].body :
                  calls[c].body[i][2] /= "s" => ~IsWs(calls[c].body[i][1])

\* C8 (amended): the request body is marshalWithSpaces' encoding of the final
\* envelope: one JSON object whose keys are the signed fields plus 'sign',
\* in ascending order, with exactly one space after each ':' and ',' outside
\* string literals and no other whitespace outside them.
C8_BodySpaced ==
    \A c \in Callers :
        HasBody(calls[c]) =>
            LET body == calls[c].body IN
            /\ kSign \in DOMAIN calls[c].params
            /\ KeysOf(body) = Ascending(DOMAIN calls[c].params)
            /\ body[1] = <<123, "o">> /\ body[Len(body)] = <<125, "o">>
            /\ \A i \in DOMAIN body :
                  /\ IsSep(body[i]) =>
                        /\ body[i + 1] = <<chSpace, "i">>
                        /\ ~IsWs(body[i + 2][1])
                  /\ (body[i][2] /= "s" /\ IsWs(body[i][1])) =>
                        /\ body[i][2] = "i"
                        /\ IsSep(body[i - 1])

\* C8 witness: a body holding all ten fields has been encoded and sent.
C8_Witness ==
    \E c \in Callers :
        /\ calls[c].pc = "sent"
        /\ Cardinality(DOMAIN calls[c].params) = 10
        /\ Len(KeysOf(calls[c].body)) = 10

LocalErrors == {"marshal biz_content", "build sign content", "sign content", "encode request"}
SentBy(c) == {m \in net : m.from = c}

\* C9: a call whose biz_content encoding, sign-content building, signing or
\* body encoding fails returns that step's error and never sends a request;
\* a request goes out only after all four steps succeeded, and its body
\* holds the complete envelope with 'sign'.
C9_NoRequestAfterFailure ==
    \A c \in Callers :
        LET cl == calls[c] IN
        /\ (HasNonFinite(cl.biz) /\ cl.pc \notin {"idle", "start"}) =>
              cl.pc = "returned" /\ cl.err = "marshal biz_content"
        /\ (~client.privateKey.canSign
              /\ cl.pc \notin {"idle", "start", "bizEncoded", "signContentBuilt"}) =>
              cl.pc = "returned" /\ cl.err \in LocalErrors
        /\ cl.err \in LocalErrors => cl.pc = "returned" /\ SentBy(c) = {}
        /\ cl.pc \in {"idle", "start", "bizEncoded", "signContentBuilt", "signed", "encoded"}
              => SentBy(c) = {}
        /\ \A m \in SentBy(c) :
              /\ cl.pc \in {"sent", "returned"}
              /\ ~HasNonFinite(cl.biz) /\ client.privateKey.canSign
              /\ cl.signContent /= <<>> /\ cl.signature /= <<>>
              /\ m.body = Bytes(cl.body)
              /\ LET d == JsonDecode(m.body)
                 IN /\ d.ok /\ d.v[1] = "map"
                    /\ DOMAIN d.v[2] = ExpectedFields(client.cfg) \cup {kSign}
                    /\ d.v[2][kSign] = <<"str", cl.signature>>

\* C9 witness: one call has failed encoding its biz_content and sent
\* nothing, while the other call's request has gone out.
C9_Witness ==
    \E c, d \in Callers :
        /\ calls[c].err = "marshal biz_content" /\ SentBy(c) = {}
        /\ SentBy(d) /= {}

\* Whether the key material holds an RSA private key, and whether it is a
\* well-formed PEM block of one (PKCS#1 under RSA PRIVATE KEY, PKCS#8 under
\* PRIVATE KEY) or a bare base64 PKCS#1 key.
HoldsRSAKey(key) ==
    key.form \in {"pem", "bare"} /\ key.der \in {"pkcs1", "pkcs1-small", "pkcs8-rsa"}
IsPEMKey(key) ==
    /\ key.form = "pem"
    /\ \/ key.blockType = "RSA PRIVATE KEY" /\ key.der \in {"pkcs1", "pkcs1-small"}
       \/ key.blockType = "PRIVATE KEY" /\ key.der = "pkcs8-rsa"
IsBareKey(key) == key.form = "bare" /\ key.der \in {"pkcs1", "pkcs1-small"}

C11_NilFailsEmptyOk ==
    /\ op = "buildSignContent(nil)" => res.err
    /\ (op = "buildSignContent" /\ DOMAIN val[2] = {}) =>
          ~res.err /\ res.out = <<>>

\* Whether v, or an element of v at any depth, is no ParameterValue: a
\* non-finite float, or a value of a type outside the union.
RECURSIVE NotRepresentable(_)
NotRepresentable(v) ==
    CASE v[1] \in {"nonfinite", "chan", "struct", "raw"} -> TRUE
      [] v[1] = "seq" -> \E i \in DOMAIN v[2] : NotRepresentable(v[2][i])
      [] v[1] = "map" -> \E k \in DOMAIN v[2] : NotRepresentable(v[2][k])
      [] OTHER -> FALSE

\* C12 (as claimed): the encoder, in either mode, returns an error and no
\* text whenever the value or an element of it at any depth is a non-finite
\* float or of a type outside the ParameterValue union, and buildSignContent
\* returns an error and no text when a field's value is such a value.
C12_UnrepresentableFails ==
    /\ (op \in {"marshalDeterministic", "marshalWithSpaces"} /\ NotRepresentable(val))
          => res.err /\ res.out = <<>>
    /\ (op = "buildSignContent" /\ NotRepresentable(val))
          => res.err /\ res.out = <<>>

\* Whether the data payload carries a code other than 0.
DataCodeNonZero(data) ==
    data.kind = "object" /\ data.code[1] \in {"num", "quoted"} /\ data.code[2] /= 0

\* C13 (as claimed): whichever of the four operations made the call, when
\* the decoded response carries a non-zero code, in the envelope or in the
\* data payload, the operation returns an error together with a result
\* that holds the parsed response.
C13_NonZeroCodeIsError ==
    \A c \in Callers :
        LET cl == calls[c] IN
        (cl.result.returned /\ cl.err = ""
            /\ (cl.resp.code /= 0 \/ DataCodeNonZero(cl.resp.data))) =>
            /\ cl.result.err /= ""
            /\ ~cl.result.nil
            /\ cl.result.Response = cl.resp

\* ------------------------------------------------- claims on concurrency
\* What a call's locals hold, as far as the call has got, when it runs
\* alone on the client: each is determined by the call's own method, biz
\* and timestamp and by the client's configuration and key.
AsRunAlone(cl) ==
    /\ cl.bizContent /= <<>> => cl.bizContent = RefCompact(cl.biz)
    /\ cl.params /= <<>> =>
          \E now \in Clock :
              SignedFields(cl) = envelope(cl.method, client.cfg, cl.bizContent, now)
    /\ cl.signContent /= <<>> => cl.signContent = RefSignContent(SignedFields(cl))
    /\ cl.signature /= <<>> =>
          /\ cl.signature = signSHA1WithRSA(client.privateKey, cl.signContent).out
          /\ cl.params[kSign] = <<"str", cl.signature>>
    /\ cl.body /= <<>> => cl.body = marshalWithSpaces(<<"map", cl.params>>).out

\* C14: in every interleaving of the calls running on one Client, each
\* call's biz_content, sign content and envelope are those of the same call
\* run alone; a step of a call changes that call's locals only; and once
\* NewClient has returned a Client, its configuration and key never change.
C14_CallsIndependent ==
    /\ [](\A c \in Callers : AsRunAlone(calls[c]))
    /\ [][/\ ~client.nil => client' = client
          /\ \A c, d \in Callers :
                (c /= d /\ calls'[c] /= calls[c]) => calls'[d] = calls[d]]_vars

\* C14 witness: two calls of different methods are in flight at once, one
\* signed and the other with its sign content built, at different times.
C14_Witness ==
    /\ calls["g1"].pc = "signed" /\ calls["g2"].pc = "signContentBuilt"
    /\ calls["g1"].method /= calls["g2"].method
    /\ calls["g1"].params[kTimestamp] /= calls["g2"].params[kTimestamp]

\* ------------------------------------------------------ claims on toBiz
\* The zero values of the field types: what a field the caller did not set
\* holds.
ZeroValues ==
    {<<"str", <<>>>>, <<"null", 0>>, <<"bool", FALSE>>, <<"int", 0>>, <<"float", 0>>,
     <<"seq", <<>>>>}
Deref(v) == IF v[1] = "ptr" THEN v[2] ELSE v

\* The key/value pairs the caller supplied through the fields of r, and
\* through the account, secret key and language of the Config.
Supplied(table, r) ==
    {<<table[i][1], Deref(r[table[i][2]])>> :
        i \in {j \in DOMAIN table : r[table[j][2]] \notin ZeroValues}}
CfgSupplied(cfg) ==
    (IF cfg.Account /= <<>> THEN {<<"account", <<"str", cfg.Account>>>>} ELSE {})
    \cup (IF cfg.SecretKey /= <<>> THEN {<<"secret_key", <<"str", cfg.SecretKey>>>>} ELSE {})
    \cup (IF cfg.Lang /= <<>> THEN {<<"lang", <<"str", cfg.Lang>>>>} ELSE {})
TableOf(type) ==
    CASE type = "AssetsRequest" -> AssetsRequestFields
      [] type = "PositionsRequest" -> PositionsRequestFields
      [] type = "CancelOrderRequest" -> CancelOrderRequestFields
      [] type = "OrdersRequest" -> OrdersRequestFields
      [] type = "Order" -> OrderFields
AllSupplied(in) ==
    Supplied(TableOf(in.type), in.r) \cup CfgSupplied(in.cfg)
    \cup (IF in.type = "Order" THEN Supplied(ContractFields, in.r.Contract) ELSE {})

\* Whether the entry of key k in biz is one the caller supplied; for
\* contract_legs: one mapping per leg given, each of supplied entries only.
EntrySupplied(in, biz, k) ==
    IF k = "contract_legs"
      THEN /\ in.type = "Order"
           /\ Len(in.r.ContractLegs) > 0
           /\ DOMAIN biz[k][2] = DOMAIN in.r.ContractLegs
           /\ \A i \in DOMAIN biz[k][2] :
                 \A j \in DOMAIN biz[k][2][i][2] :
                    <<j, biz[k][2][i][2][j]>> \in
                        Supplied(ContractFields \o ContractLegFields, in.r.ContractLegs[i])
      ELSE <<k, biz[k]>> \in AllSupplied(in)

\* C15 (as claimed): the mapping a toBiz builds holds a key only when the
\* caller, or the configuration for account, secret_key and lang, set the
\* field to a non-default value, and holds no value that was not supplied.
C15_OnlySuppliedFields ==
    op = "toBiz" =>
        \A k \in DOMAIN res.out[2] : EntrySupplied(val[2], res.out[2], k)

\* ------------------------------------------ claims on marshalWithSpaces
\* C16 (as claimed): marshalWithSpaces' output, with the space after each
\* ':' and ',' outside string literals deleted, is json.Marshal's output
\* byte for byte, whatever bytes the value holds.
C16_OnlySpacesInserted ==
    (op = "marshalWithSpaces" /\ ~res.err) =>
        /\ \A i \in DOMAIN res.out :
              res.out[i][2] = "i" => (i > 1 /\ IsSep(res.out[i - 1]))
        /\ Bytes(SelectSeq(res.out, LAMBDA e : e[2] /= "i")) = Bytes(JsonMarshal(val).out)

=============================================================================
